---- MODULE Spec2Model ----
(***************************************************************************)
(* Atelier: fit orchestration and progress notification.                   *)
(*                                                                         *)
(* The backend half is the background fit runner of the technical          *)
(* specification kept in the repository (src/unnamed/part_000, sections    *)
(* 3.5, 5.1, 7 and 11.1): POST /api/models/{project_id}/fit creates a      *)
(* Model row and an asyncio task run_fit; run_fit drives the row through   *)
(* its statuses and broadcasts messages to the asyncio queues that the     *)
(* WebSocket connections registered in _fit_channels.                      *)
(*                                                                         *)
(* The frontend half is the builder page as coded                          *)
(* (src/frontend/src/pages/ModelBuilderPage.tsx): handleFit posts the      *)
(* terms to /fit, awaits the FitResult and then saves it with              *)
(* /models/save, which answers with the version.                           *)
(*                                                                         *)
(* Names follow the source: the status the prose calls "running" is        *)
(* "fitting", a job is a Model row, a job id is a model_id, the events     *)
(* started/progress/completed/failed are the messages fit_started,         *)
(* fit_progress, fit_completed and fit_failed.                             *)
(***************************************************************************)
EXTENDS Integers, Sequences, FiniteSets, TLC

\* ------------------------------------------------------------------ bounds

MaxJobs == 2          \* fit submissions accepted in one run
MaxObservers == 2     \* WebSocket connections opened in one run
MaxIter == 1          \* IRLS iteration lines captured from one fit
MaxFits == 2          \* clicks on the Fit button of the builder page
MaxOpens == 2         \* times the builder page is opened
MaxRequests == 2      \* column-values requests of the form in flight at once

ModelIds == 1..MaxJobs
Observers == 1..MaxObservers
Projects == {"p1", "p2"}

Null == "null"
Undefined == "undefined"

\* A nullable number: {} for null, {n} for the number n.
NoNumber == {}
Number(n) == {n}

\* ------------------------------------------------- rustystats exceptions

\* part_000 15.8: the exception hierarchy; anything else is a plain Python
\* exception (13.3 names MemoryError) and has no parent in it.
Parent(cls) ==
    CASE cls = "ConvergenceError" -> "FittingError"
      [] cls \in {"DesignMatrixError", "FittingError", "PredictionError",
                  "EncodingError", "ValidationError", "SerializationError"}
            -> "RustyStatsError"
      [] OTHER -> "Exception"

IsInstance(exc, cls) ==
    \/ exc = cls
    \/ Parent(exc) = cls
    \/ Parent(Parent(exc)) = cls

\* What the thread that loads the data, builds the model and calls .fit()
\* can raise.
AdapterExceptions ==
    {"ConvergenceError", "DesignMatrixError", "FittingError", "EncodingError",
     "ValidationError", "PredictionError", "SerializationError", "MemoryError"}

\* part_000 13.4: extraction of the results of a finished fit can fail too.
ExtractionError == "ResultExtractionError"

\* part_000 11.1: the rows of the error mapping, in the order of the table.
\* ConvergenceError is a FittingError, so its row has to be tried first.
ErrorTable ==
    << "ConvergenceError", "DesignMatrixError", "FittingError", "EncodingError",
       "ValidationError", "PredictionError", "SerializationError" >>

ErrorTableSwapped ==
    << "FittingError", "DesignMatrixError", "ConvergenceError", "EncodingError",
       "ValidationError", "PredictionError", "SerializationError" >>

OtherRow == "Other"

RowIn(table, exc) ==
    LET hits == {i \in 1..Len(table) : IsInstance(exc, table[i])}
    IN  IF hits = {} THEN OtherRow
        ELSE table[CHOOSE i \in hits : \A k \in hits : i <= k]

ErrorRowSwapped(exc) == RowIn(ErrorTableSwapped, exc)

\* The row of the mapping an exception falls in.
ErrorRow(exc) == RowIn(ErrorTable, exc)

\* Map exception -> (error_type, message, suggestion).  error_type is the
\* exception's class name (5.1, Model.error_type); every row has one fixed
\* suggestion text, named here after its row.
MapException(exc) ==
    [error_type |-> exc, error_message |-> "message", suggestion |-> ErrorRow(exc)]

\* ------------------------------------------------------------------ state

VARIABLES
    models,      \* the Model table: model_id -> row
    deleted,     \* the projects deleted so far
    responses,   \* the bodies returned by POST /api/models/{project_id}/fit
    pc,          \* pc[m]: where the task run_fit(m) stands
    outcome,     \* outcome[m]: what the thread of run_fit(m) returned or raised
    progress,    \* progress[m]: iteration lines captured and not yet broadcast
    channels,    \* _fit_channels: model_id -> list of registered queues
    queue,       \* queue[o]: the asyncio.Queue of connection o
    ws,          \* ws[o]: "unused", "open" or "closed"
    wsModel,     \* wsModel[o]: the model_id in the URL of connection o
    delivered,   \* delivered[o]: the messages sent to the peer of o, in order
    published,   \* published[m]: the messages run_fit(m) has broadcast, in order
    subAt,       \* subAt[o]: Len(published[wsModel[o]]) when o registered
    hubRaised,   \* an unregister call has raised
    \* the builder page
    page,           \* "unmounted" or "mounted"
    projectId,      \* config.projectId: {} (null) or {id}
    terms,          \* useState<TermSpec[]>
    fitting,        \* useState(false)
    fitResult,      \* useState<FitResult | null>: {} or {result}
    fitError,       \* useState<string | null>: {} or {message}
    currentVersion, \* useState<number | null>
    history,        \* useState<ModelSummary[]>: the versions listed
    uiPc,           \* where the running handleFit stands
    reqTerms,       \* serialized: the terms handleFit sent
    fitClicks,      \* handleFit invocations so far
    restoring,      \* useState(false)
    restorePc,      \* where the mount effect or handleRestoreVersion stands
    restoreId,      \* the id in the outstanding GET /models/detail: {} or {id}
    opens,          \* times the page was opened so far
    formPc,         \* the configuration form: "closed", "open", or left for the "builder"
    datasetPath,    \* useState(prev?.datasetPath ?? null): {} or {path}
    response,       \* useState(prev?.response ?? null): {} or {column}
    offset,         \* useState(prev?.offset ?? null)
    weights,        \* useState(prev?.weights ?? null)
    splitColumn,    \* useState(prev?.split?.column ?? null)
    splitValues,    \* useState([]): the values listed for assignment
    splitMapping,   \* useState(prev?.split?.mapping ?? {})
    loadingValues,  \* useState(false)
    restoredSplitRef, \* useRef(!!prev?.split)
    pendingValues,  \* column-values requests in flight, per column
    handed,         \* the config the builder holds from navigate("/model"): {} or {config}
    historyReq,     \* a GET /models/{projectId}/history is outstanding
    \* the server behind the builder page
    engine,         \* the fit of the /fit request: "idle", "running", "ok", "error"
    saved,          \* the versions stored by /models/save, oldest first
    fitReturn       \* what the await of POST /fit returned, and when: {} or {r}

backendVars == << models, deleted, responses, pc, outcome, progress, channels, queue, ws,
                  wsModel, delivered, published, subAt, hubRaised >>

pageVars == << page, projectId, terms, fitting, fitResult, fitError, currentVersion,
               history, uiPc, reqTerms, fitClicks, restoring, restorePc, restoreId,
               opens, historyReq, engine, saved, fitReturn >>

formVars == << formPc, datasetPath, response, offset, weights, splitColumn, splitValues,
               splitMapping, loadingValues, restoredSplitRef, pendingValues, handed >>

vars == << backendVars, pageVars, formVars >>

taskVars == << models, deleted, responses, pc, outcome, progress, published >>
wsVars == << ws, wsModel, delivered, subAt, hubRaised >>

\* ------------------------------------------------------------ Model table

Created == DOMAIN models

ProjectModels(ms, p) == {i \in DOMAIN ms : ms[i].project_id = p}

AllocateVersionStale(ms, p) ==
    IF ProjectModels(ms, p) = {} THEN 1 ELSE Cardinality(ProjectModels(ms, p))

AllocateVersionReuse(ms, p) ==
    Cardinality({i \in ProjectModels(ms, p) : ms[i].status # "failed"}) + 1

AllocateVersionSkip(ms, p) == 2 * Cardinality(ProjectModels(ms, p)) + 1

\* Model.version: "Auto-increment per project (1, 2, 3...)".
AllocateVersion(ms, p) == Cardinality(ProjectModels(ms, p)) + 1

NewModel(ms, p) ==
    [project_id |-> p,
     version |-> AllocateVersion(ms, p),
     status |-> "pending",
     error_type |-> Null,
     error_message |-> Null,
     results |-> Null,
     fit_duration_ms |-> NoNumber]

Terminal == {"completed", "failed"}

\* INSERT of the row with primary key m.
Insert(ms, m, row) == [k \in DOMAIN ms \cup {m} |-> IF k = m THEN row ELSE ms[k]]

\* --------------------------------------------------------- _fit_channels

RegisterSetDefault(ch, m, o) ==
    IF m \in DOMAIN ch
    THEN ch
    ELSE [k \in DOMAIN ch \cup {m} |-> IF k = m THEN << o >> ELSE ch[k]]

\* Register the queue of connection o for model_id m.
Register(ch, m, o) ==
    IF m \in DOMAIN ch
    THEN [ch EXCEPT ![m] = Append(@, o)]
    ELSE [k \in DOMAIN ch \cup {m} |-> IF k = m THEN << o >> ELSE ch[k]]

RemoveTail(list, o) ==
    LET hits == {i \in 1..Len(list) : list[i] = o}
    IN  IF hits = {} THEN list
        ELSE SubSeq(list, 1, (CHOOSE i \in hits : \A k \in hits : i <= k) - 1)

Remove(list, o) == SelectSeq(list, LAMBDA x : x # o)

Listeners(ch, m) ==
    IF m \in DOMAIN ch THEN {ch[m][i] : i \in 1..Len(ch[m])} ELSE {}

UnregisterStrict(ch, m, o) ==
    IF m \in DOMAIN ch /\ o \in Listeners(ch, m)
    THEN [channels |-> [ch EXCEPT ![m] = Remove(@, o)], raised |-> FALSE]
    ELSE [channels |-> ch, raised |-> TRUE]

\* Unregister the queue of o: a no-op when the queue, or the whole entry of
\* the model, is no longer there.
Unregister(ch, m, o) ==
    IF m \in DOMAIN ch
    THEN [channels |-> [ch EXCEPT ![m] = Remove(@, o)], raised |-> FALSE]
    ELSE [channels |-> ch, raised |-> FALSE]

\* The entry of a model is dropped once its terminal message is broadcast.
DropEntry(ch, m) == [k \in DOMAIN ch \ {m} |-> ch[k]]

DequeueNewest(q) == [msg |-> q[Len(q)], rest |-> SubSeq(q, 1, Len(q) - 1)]

\* asyncio.Queue.get: the oldest message first.
Dequeue(q) == [msg |-> Head(q), rest |-> Tail(q)]

BroadcastFirst(ch, q, m, msg) ==
    [o \in Observers |->
        IF m \in DOMAIN ch /\ ch[m] # << >> /\ o = Head(ch[m])
        THEN Append(q[o], msg) ELSE q[o]]

BroadcastToAll(ch, q, m, msg) ==
    [o \in Observers |->
        IF \E k \in DOMAIN ch : o \in Listeners(ch, k) THEN Append(q[o], msg) ELSE q[o]]

\* The fit runner puts msg on every queue registered for model_id m.
Broadcast(ch, q, m, msg) ==
    [o \in Observers |-> IF o \in Listeners(ch, m) THEN Append(q[o], msg) ELSE q[o]]

\* ------------------------------------------------------------------ Init

Init ==
    /\ models = << >>
    /\ deleted = {}
    /\ responses = << >>
    /\ pc = [m \in ModelIds |-> "none"]
    /\ outcome = [m \in ModelIds |-> Null]
    /\ progress = [m \in ModelIds |-> 0]
    /\ channels = << >>
    /\ queue = [o \in Observers |-> << >>]
    /\ ws = [o \in Observers |-> "unused"]
    /\ wsModel = [o \in Observers |-> 0]
    /\ delivered = [o \in Observers |-> << >>]
    /\ published = [m \in ModelIds |-> << >>]
    /\ subAt = [o \in Observers |-> 0]
    /\ hubRaised = FALSE
    /\ page = "unmounted"
    /\ projectId = {}
    /\ terms = << >>
    /\ fitting = FALSE
    /\ fitResult = {}
    /\ fitError = {}
    /\ currentVersion = NoNumber
    /\ history = << >>
    /\ uiPc = "idle"
    /\ reqTerms = << >>
    /\ fitClicks = 0
    /\ restoring = FALSE
    /\ restorePc = "idle"
    /\ restoreId = {}
    /\ opens = 0
    /\ formPc = "closed"
    /\ datasetPath = {}
    /\ response = {}
    /\ offset = {}
    /\ weights = {}
    /\ splitColumn = {}
    /\ splitValues = {}
    /\ splitMapping = << >>
    /\ loadingValues = FALSE
    /\ restoredSplitRef = FALSE
    /\ pendingValues = [c \in {"Group", "Year"} |-> 0]
    /\ handed = {}
    /\ historyReq = FALSE
    /\ engine = "idle"
    /\ saved = << >>
    /\ fitReturn = {}

\* --------------------------------------------------------------- messages

Msg(type, m, it, exc) ==
    [type |-> type, model_id |-> m, iteration |-> it,
     error_type |-> IF exc = Null THEN Null ELSE MapException(exc).error_type,
     suggestion |-> IF exc = Null THEN Null ELSE MapException(exc).suggestion]

TerminalTypes == {"fit_completed", "fit_failed"}

Publish(m, msg) ==
    /\ queue' = Broadcast(channels, queue, m, msg)
    /\ published' = [published EXCEPT ![m] = Append(@, msg)]

\* ------------------------------------------- POST /api/models/{id}/fit

\* Create the Model row (status "pending"), answer 202 with
\* {model_id, version, status} and leave run_fit to its own task.
Submit(p) ==
    /\ Len(responses) < MaxJobs
    /\ p \notin deleted
    /\ (Len(responses) = 0 => p = "p1")   \* projects are interchangeable
    /\ LET m == Len(responses) + 1
           row == NewModel(models, p)
       IN  /\ models' = Insert(models, m, row)
           /\ responses' = Append(responses,
                  [model_id |-> m, version |-> row.version, status |-> row.status])
           /\ pc' = [pc EXCEPT ![m] = "scheduled"]
    /\ UNCHANGED << deleted, outcome, progress, channels, queue, published >>
    /\ UNCHANGED wsVars
    /\ UNCHANGED << pageVars, formVars >>

\* ---------------------------------------------------------------- run_fit

SetStatusLater(ms, m, st) ==
    IF st = "fitting" \/ m \notin DOMAIN ms THEN ms ELSE [ms EXCEPT ![m].status = st]

SetStatusNoWhere(ms, m, st) == [i \in DOMAIN ms |-> [ms[i] EXCEPT !.status = st]]

\* UPDATE ... WHERE id = m: no row is touched when the row is gone.
SetStatus(ms, m, st) == IF m \in DOMAIN ms THEN [ms EXCEPT ![m].status = st] ELSE ms

\* Set status="fitting".
SetFitting(m) ==
    /\ pc[m] = "scheduled"
    /\ models' = SetStatus(models, m, "fitting")
    /\ pc' = [pc EXCEPT ![m] = "broadcast_started"]
    /\ UNCHANGED << deleted, responses, outcome, progress, channels, queue, published >>
    /\ UNCHANGED wsVars
    /\ UNCHANGED << pageVars, formVars >>

\* Broadcast {type: "fit_started"}; the rustystats calls are handed to a thread.
BroadcastStarted(m) ==
    /\ pc[m] = "broadcast_started"
    /\ Publish(m, Msg("fit_started", m, 0, Null))
    /\ pc' = [pc EXCEPT ![m] = "to_thread"]
    /\ UNCHANGED << models, deleted, responses, outcome, progress, channels >>
    /\ UNCHANGED wsVars
    /\ UNCHANGED << pageVars, formVars >>

GilFreeOfTasks(p) == \A k \in ModelIds : p[k] \notin {"in_thread", "parse_progress", "store"}

\* part_000 13.4: two fits run "sequentially due to GIL, but in separate
\* asyncio tasks": the thread of a fit computes only while no other fit's
\* thread does.
GilFree(p) == \A k \in ModelIds : p[k] # "in_thread"

\* The thread of run_fit(m) loads the data, builds the model and calls .fit().
ThreadStarts(m) ==
    /\ pc[m] = "to_thread"
    /\ GilFree(pc)
    /\ pc' = [pc EXCEPT ![m] = "in_thread"]
    /\ UNCHANGED << models, deleted, responses, outcome, progress, channels, queue,
                    published >>
    /\ UNCHANGED wsVars
    /\ UNCHANGED << pageVars, formVars >>

\* The thread returns: .fit() succeeded with n iteration lines captured from
\* stdout (none when the capture does not work), or one of the calls raised.
ThreadReturns(m) ==
    /\ pc[m] = "in_thread"
    /\ \/ \E n \in 0..MaxIter :
            /\ outcome' = [outcome EXCEPT ![m] = "ok"]
            /\ progress' = [progress EXCEPT ![m] = n]
            /\ pc' = [pc EXCEPT ![m] = "parse_progress"]
       \/ \E exc \in AdapterExceptions :
            /\ outcome' = [outcome EXCEPT ![m] = exc]
            /\ progress' = progress
            /\ pc' = [pc EXCEPT ![m] = "store"]
    /\ UNCHANGED << models, deleted, responses, channels, queue, published >>
    /\ UNCHANGED wsVars
    /\ UNCHANGED << pageVars, formVars >>

ProgressSent(m) ==
    Cardinality({i \in 1..Len(published[m]) : published[m][i].type = "fit_progress"})

\* Broadcast {type: "fit_progress", iteration} for the next captured line.
BroadcastProgress(m) ==
    /\ pc[m] = "parse_progress"
    /\ progress[m] > 0
    /\ Publish(m, Msg("fit_progress", m, ProgressSent(m) + 1, Null))
    /\ progress' = [progress EXCEPT ![m] = @ - 1]
    /\ UNCHANGED << models, deleted, responses, pc, outcome, channels >>
    /\ UNCHANGED wsVars
    /\ UNCHANGED << pageVars, formVars >>

\* ON SUCCESS: extract summary(), coef_table(), relativities(), to_bytes()
\* and generate the code; a failure here is a ResultExtractionError.
ExtractResults(m) ==
    /\ pc[m] = "parse_progress"
    /\ progress[m] = 0
    /\ \/ outcome' = outcome
       \/ outcome' = [outcome EXCEPT ![m] = ExtractionError]
    /\ pc' = [pc EXCEPT ![m] = "store"]
    /\ UNCHANGED << models, deleted, responses, progress, channels, queue, published >>
    /\ UNCHANGED wsVars
    /\ UNCHANGED << pageVars, formVars >>

ElapsedObserved(m) == Len(published[m]) + Cardinality(Listeners(channels, m))

\* fit_duration_ms: the time since the task began, counted in its broadcasts.
Elapsed(m) == Len(published[m])

StoreBoth(ms, m, out, ms_) ==
    IF m \notin DOMAIN ms THEN ms ELSE
    [ms EXCEPT ![m].status = IF out = "ok" THEN "completed" ELSE "failed",
               ![m].results = "populated",
               ![m].error_type = IF out = "ok" THEN Null ELSE MapException(out).error_type,
               ![m].error_message = IF out = "ok" THEN Null ELSE MapException(out).error_message,
               ![m].fit_duration_ms = Number(ms_)]

\* ON SUCCESS: store all in the Model row, status="completed".
\* ON FAILURE: map the exception and store it in the row, status="failed".
StoreOutcome(ms, m, out, ms_) ==
    IF m \notin DOMAIN ms THEN ms
    ELSE IF out = "ok"
    THEN [ms EXCEPT ![m].status = "completed",
                    ![m].results = "populated",
                    ![m].fit_duration_ms = Number(ms_)]
    ELSE [ms EXCEPT ![m].status = "failed",
                    ![m].error_type = MapException(out).error_type,
                    ![m].error_message = MapException(out).error_message,
                    ![m].fit_duration_ms = Number(ms_)]

Store(m) ==
    /\ pc[m] = "store"
    /\ models' = StoreOutcome(models, m, outcome[m], Elapsed(m))
    /\ pc' = [pc EXCEPT ![m] = "broadcast_terminal"]
    /\ UNCHANGED << deleted, responses, outcome, progress, channels, queue, published >>
    /\ UNCHANGED wsVars
    /\ UNCHANGED << pageVars, formVars >>

TerminalMsgNeedsProgress(m, out) ==
    IF ProgressSent(m) = 0 \/ out # "ok"
    THEN Msg("fit_failed", m, 0, out)
    ELSE Msg("fit_completed", m, 0, Null)

TerminalMsgCompleted(m, out) == Msg("fit_completed", m, 0, Null)

TerminalMsg(m, out) ==
    IF out = "ok" THEN Msg("fit_completed", m, 0, Null) ELSE Msg("fit_failed", m, 0, out)

\* Broadcast fit_completed or fit_failed; the entry of the model goes.
BroadcastTerminal(m) ==
    /\ pc[m] = "broadcast_terminal"
    /\ Publish(m, TerminalMsg(m, outcome[m]))
    /\ channels' = DropEntry(channels, m)
    /\ pc' = [pc EXCEPT ![m] = "done"]
    /\ UNCHANGED << models, deleted, responses, outcome, progress >>
    /\ UNCHANGED wsVars
    /\ UNCHANGED << pageVars, formVars >>

\* run_fit is a task nobody awaits: when one of its own writes to the Model
\* row raises, the exception ends the task and nothing else sees it.
TaskFails(m) ==
    /\ pc[m] \in {"scheduled", "store"}
    /\ pc' = [pc EXCEPT ![m] = "crashed"]
    /\ UNCHANGED << models, deleted, responses, outcome, progress, channels, queue, published >>
    /\ UNCHANGED wsVars
    /\ UNCHANGED << pageVars, formVars >>

\* ------------------------------------ DELETE /api/projects/{project_id}

DeleteRowsFirst(ms, p) ==
    IF ProjectModels(ms, p) = {} THEN ms
    ELSE LET first == CHOOSE i \in ProjectModels(ms, p) :
                          \A k \in ProjectModels(ms, p) : i <= k
         IN  [k \in DOMAIN ms \ {first} |-> ms[k]]

\* "Deletes project, all datasets (files + records), all models."
DeleteRows(ms, p) == [k \in DOMAIN ms \ ProjectModels(ms, p) |-> ms[k]]

\* The project and its Model rows go; a fit of the project that is under way
\* is not told.
DeleteProject(p) ==
    /\ p \notin deleted
    /\ deleted' = deleted \cup {p}
    /\ models' = DeleteRows(models, p)
    /\ UNCHANGED << responses, pc, outcome, progress, channels, queue, published >>
    /\ UNCHANGED wsVars
    /\ UNCHANGED << pageVars, formVars >>

\* ------------------------------------------------- ws://.../ws/fit/{id}

\* The server accepts the connection and registers a listener queue.
Connect(o, m) ==
    /\ ws[o] = "unused"
    /\ \A k \in Observers : k < o => ws[k] # "unused"
    /\ m \in Created
    /\ ws' = [ws EXCEPT ![o] = "open"]
    /\ wsModel' = [wsModel EXCEPT ![o] = m]
    /\ channels' = Register(channels, m, o)
    /\ subAt' = [subAt EXCEPT ![o] = Len(published[m])]
    /\ UNCHANGED << queue, delivered, hubRaised >>
    /\ UNCHANGED taskVars
    /\ UNCHANGED << pageVars, formVars >>

CallUnregister(o) ==
    LET r == Unregister(channels, wsModel[o], o)
    IN  /\ channels' = r.channels
        /\ hubRaised' = (hubRaised \/ r.raised)

\* The server pushes the next message of the queue to the peer; after
\* fit_completed or fit_failed the connection closes and its queue is
\* unregistered.
Forward(o) ==
    /\ ws[o] = "open"
    /\ queue[o] # << >>
    /\ delivered' = [delivered EXCEPT ![o] = Append(@, Dequeue(queue[o]).msg)]
    /\ IF Dequeue(queue[o]).msg.type \in TerminalTypes
       THEN /\ ws' = [ws EXCEPT ![o] = "closed"]
            /\ queue' = [queue EXCEPT ![o] = << >>]
            /\ CallUnregister(o)
       ELSE /\ queue' = [queue EXCEPT ![o] = Dequeue(@).rest]
            /\ UNCHANGED << ws, channels, hubRaised >>
    /\ UNCHANGED << wsModel, subAt >>
    /\ UNCHANGED taskVars
    /\ UNCHANGED << pageVars, formVars >>

\* The frontend closes the connection; the queue is unregistered and the fit
\* continues in the background.
Disconnect(o) ==
    /\ ws[o] = "open"
    /\ ws' = [ws EXCEPT ![o] = "closed"]
    /\ queue' = [queue EXCEPT ![o] = << >>]
    /\ CallUnregister(o)
    /\ UNCHANGED << wsModel, delivered, subAt >>
    /\ UNCHANGED taskVars
    /\ UNCHANGED << pageVars, formVars >>

\* A further unregister call for a connection that is already closed (the
\* handler's cleanup running after the disconnect has unregistered the queue).
UnregisterAgain(o) ==
    /\ ws[o] = "closed"
    /\ CallUnregister(o)
    /\ UNCHANGED << queue, ws, wsModel, delivered, subAt >>
    /\ UNCHANGED taskVars
    /\ UNCHANGED << pageVars, formVars >>

\* ------------------------------------------------------------------ Next

Next ==
    \/ \E p \in Projects : Submit(p)
    \/ \E m \in ModelIds : SetFitting(m)
    \/ \E m \in ModelIds : BroadcastStarted(m)
    \/ \E m \in ModelIds : ThreadStarts(m)
    \/ \E m \in ModelIds : ThreadReturns(m)
    \/ \E m \in ModelIds : BroadcastProgress(m)
    \/ \E m \in ModelIds : ExtractResults(m)
    \/ \E m \in ModelIds : Store(m)
    \/ \E m \in ModelIds : BroadcastTerminal(m)
    \/ \E m \in ModelIds : TaskFails(m)
    \/ \E o \in Observers, m \in ModelIds : Connect(o, m)
    \/ \E o \in Observers : Forward(o)
    \/ \E o \in Observers : Disconnect(o)
    \/ \E o \in Observers : UnregisterAgain(o)

Spec == Init /\ [][Next]_vars

\* The Model table under fits and project deletions, with no WebSocket
\* connection opened.
StoreNext ==
    \/ \E p \in Projects : Submit(p)
    \/ \E m \in ModelIds : SetFitting(m)
    \/ \E m \in ModelIds : BroadcastStarted(m)
    \/ \E m \in ModelIds : ThreadStarts(m)
    \/ \E m \in ModelIds : ThreadReturns(m)
    \/ \E m \in ModelIds : BroadcastProgress(m)
    \/ \E m \in ModelIds : ExtractResults(m)
    \/ \E m \in ModelIds : Store(m)
    \/ \E m \in ModelIds : BroadcastTerminal(m)
    \/ \E m \in ModelIds : TaskFails(m)
    \/ \E p \in Projects : DeleteProject(p)

StoreSpec == Init /\ [][StoreNext]_vars

\* ========================================================= the builder page

\* The term specs the context menu of a categorical column (Region) and of a
\* numeric column (VehAge) can add; fields the menu leaves out are undefined.
TermSpecs ==
    { [column |-> "Region", type |-> "categorical", monotonicity |-> Undefined,
       expr |-> Undefined, label |-> "Region [Cat]"],
      [column |-> "VehAge", type |-> "linear", monotonicity |-> Undefined,
       expr |-> Undefined, label |-> "VehAge [Lin]"],
      [column |-> "VehAge", type |-> "linear", monotonicity |-> "increasing",
       expr |-> Undefined, label |-> "VehAge [Lin up]"] }

\* x ?? d
Coalesce(x, d) == IF x \in {Null, Undefined} THEN d ELSE x

\* serializeTerms: the shape the backend expects, without the label and
\* with null for what is undefined.
SerializeTerm(t) ==
    [column |-> t.column, type |-> t.type,
     monotonicity |-> Coalesce(t.monotonicity, Null),
     expr |-> Coalesce(t.expr, Null)]

SerializeTerms(ts) == [i \in 1..Len(ts) |-> SerializeTerm(ts[i])]

HydratedLabel(t) ==
    IF t.type = "expression" THEN Coalesce(t.expr, t.column)
    ELSE IF t.column = "Region" THEN "Region (categorical)" ELSE "VehAge (linear)"

\* hydrateModel: the terms of a stored spec, with undefined for null and a
\* label made of column and type.
HydrateTerm(t) ==
    [column |-> t.column, type |-> t.type,
     monotonicity |-> Coalesce(t.monotonicity, Undefined),
     expr |-> Coalesce(t.expr, Undefined),
     label |-> HydratedLabel(t)]

HydrateTerms(ts) == [i \in 1..Len(ts) |-> HydrateTerm(ts[i])]

\* The FitResult of fit number n over the serialized terms ts.
FitResultOf(n, ts) == [fit |-> n, n_terms |-> Len(ts)]

\* hydrateModel: the FitResult rebuilt from a stored model (its coef_table
\* is always there for a model saved by the page).
HydrateFitResult(row) == {FitResultOf(row.fit, row.terms)}

SameTermByColumn(t, u) == t.column = u.column

SameTerm(t, u) == t.column = u.column /\ t.type = u.type /\ t.expr = u.expr

\* prev.findIndex(...): the first index holding the same column, type and
\* expr, or 0.
FindIndex(prev, spec) ==
    LET hits == {i \in 1..Len(prev) : SameTerm(prev[i], spec)}
    IN  IF hits = {} THEN 0 ELSE CHOOSE i \in hits : \A k \in hits : i <= k

\* The page is opened with its config (location.state).  On a project-backed
\* page the mount effect sets restoring and asks for the history.
OpenPage(pid) ==
    /\ page = "unmounted"
    /\ opens < MaxOpens
    /\ opens' = opens + 1
    /\ page' = "mounted"
    /\ projectId' = pid
    /\ IF pid # {}
       THEN restoring' = TRUE /\ restorePc' = "await_history"
       ELSE UNCHANGED << restoring, restorePc >>
    /\ UNCHANGED << terms, fitting, fitResult, fitError, currentVersion, history,
                    uiPc, reqTerms, fitClicks, restoreId, historyReq, engine, saved,
                    fitReturn >>
    /\ UNCHANGED << backendVars, formVars >>

\* The Setup button navigates away: the page and its state are gone.  Taken
\* here when no request of the page is outstanding.
ClosePage ==
    /\ page = "mounted"
    /\ uiPc = "idle" /\ restorePc = "idle" /\ ~historyReq
    /\ page' = "unmounted"
    /\ projectId' = {}
    /\ terms' = << >>
    /\ fitting' = FALSE
    /\ fitResult' = {}
    /\ fitError' = {}
    /\ currentVersion' = NoNumber
    /\ history' = << >>
    /\ restoring' = FALSE
    /\ reqTerms' = << >>
    /\ UNCHANGED << uiPc, fitClicks, restorePc, restoreId, opens, historyReq, engine,
                    saved, fitReturn >>
    /\ UNCHANGED << backendVars, formVars >>

\* addTerm: replace the entry with the same column, type and expr, else append.
AddTerm(spec) ==
    /\ page = "mounted"
    /\ terms' = IF FindIndex(terms, spec) > 0
                THEN [terms EXCEPT ![FindIndex(terms, spec)] = spec]
                ELSE Append(terms, spec)
    /\ UNCHANGED << page, projectId, fitting, fitResult, fitError, currentVersion,
                    history, uiPc, reqTerms, fitClicks, restoring, restorePc,
                    restoreId, opens, historyReq, engine, saved, fitReturn >>
    /\ UNCHANGED << backendVars, formVars >>

\* removeTerm: filter out the entries with that column, type and expr.
RemoveTerm(spec) ==
    /\ page = "mounted"
    /\ terms' = SelectSeq(terms, LAMBDA t : ~SameTerm(t, spec))
    /\ UNCHANGED << page, projectId, fitting, fitResult, fitError, currentVersion,
                    history, uiPc, reqTerms, fitClicks, restoring, restorePc,
                    restoreId, opens, historyReq, engine, saved, fitReturn >>
    /\ UNCHANGED << backendVars, formVars >>

\* handleFit up to its first await: the Fit button is disabled while there
\* are no terms or a fit is running; the request carries the serialized terms.
HandleFit ==
    /\ page = "mounted"
    /\ terms # << >>
    /\ ~fitting
    /\ fitClicks < MaxFits
    /\ fitting' = TRUE
    /\ fitError' = {}
    /\ fitResult' = {}
    /\ reqTerms' = SerializeTerms(terms)
    /\ uiPc' = "await_fit"
    /\ engine' = "running"
    /\ fitClicks' = fitClicks + 1
    /\ UNCHANGED << page, projectId, terms, currentVersion, history, restoring,
                    restorePc, restoreId, opens, historyReq, saved, fitReturn >>
    /\ UNCHANGED << backendVars, formVars >>

\* The fit of the /fit request ends, with a model or with an error.
EngineFinishes ==
    /\ engine = "running"
    /\ engine' \in {"ok", "error"}
    /\ UNCHANGED << page, projectId, terms, fitting, fitResult, fitError,
                    currentVersion, history, uiPc, reqTerms, fitClicks, restoring,
                    restorePc, restoreId, opens, historyReq, saved, fitReturn >>
    /\ UNCHANGED << backendVars, formVars >>

\* The answer to POST /fit is the FitResult of the finished fit (summary,
\* coef_table, deviance, fit_duration_ms), or an error status.
FitReturned(body) == {[body |-> body, fit |-> IF engine = "running" THEN "running" ELSE "finished"]}

FinallyFittingKept == fitting

\* finally { setFitting(false) }
FinallyFitting == FALSE

\* handleFit resumes with the FitResult: setFitResult, then the auto-save
\* of a project-backed page; without a project it ends here.
FitResponds ==
    /\ uiPc = "await_fit"
    /\ engine = "ok"
    /\ fitReturn' = FitReturned("FitResult")
    /\ fitResult' = {FitResultOf(fitClicks, reqTerms)}
    /\ engine' = "idle"
    /\ IF projectId # {}
       THEN uiPc' = "await_save" /\ fitting' = fitting
       ELSE uiPc' = "idle" /\ fitting' = FinallyFitting
    /\ UNCHANGED << page, projectId, terms, fitError, currentVersion, history,
                    reqTerms, fitClicks, restoring, restorePc, restoreId, opens,
                    historyReq, saved >>
    /\ UNCHANGED << backendVars, formVars >>

\* apiPost throws on an error status: setFitError, and finally setFitting(false).
FitFails ==
    /\ uiPc = "await_fit"
    /\ engine = "error"
    /\ fitReturn' = FitReturned("error")
    /\ fitError' = {"message"}
    /\ engine' = "idle"
    /\ uiPc' = "idle"
    /\ fitting' = FinallyFitting
    /\ UNCHANGED << page, projectId, terms, fitResult, currentVersion, history,
                    reqTerms, fitClicks, restoring, restorePc, restoreId, opens,
                    historyReq, saved >>
    /\ UNCHANGED << backendVars, formVars >>

NextVersion(rows) == Len(rows) + 1

SavedSpecLive == SerializeTerms(terms)

\* terms: serialized - the body of /models/save carries the terms that were
\* sent to /fit.
SavedSpec == reqTerms

\* /models/save stored the fit and answered {version}: setCurrentVersion,
\* fetchHistory, and finally setFitting(false).
SaveResponds ==
    /\ uiPc = "await_save"
    /\ saved' = Append(saved, [version |-> NextVersion(saved), terms |-> SavedSpec,
                               fit |-> fitClicks])
    /\ currentVersion' = Number(NextVersion(saved))
    /\ historyReq' = TRUE
    /\ uiPc' = "idle"
    /\ fitting' = FinallyFitting
    /\ UNCHANGED << page, projectId, terms, fitResult, fitError, history, reqTerms,
                    fitClicks, restoring, restorePc, restoreId, opens, engine,
                    fitReturn >>
    /\ UNCHANGED << backendVars, formVars >>

\* /models/save failed: the error is logged, and finally setFitting(false).
SaveFails ==
    /\ uiPc = "await_save"
    /\ uiPc' = "idle"
    /\ fitting' = FinallyFitting
    /\ UNCHANGED << page, projectId, terms, fitResult, fitError, currentVersion,
                    history, reqTerms, fitClicks, restoring, restorePc, restoreId,
                    opens, historyReq, engine, saved, fitReturn >>
    /\ UNCHANGED << backendVars, formVars >>

OldestFirst(rows) == [i \in 1..Len(rows) |-> rows[i].version]

\* GET /models/{project_id}/history: "Ordered by version descending (newest
\* first)"; the id of a model is written as its version.
NewestFirst(rows) == [i \in 1..Len(rows) |-> rows[Len(rows) + 1 - i].version]

\* fetchHistory: the history arrives, setHistory.
HistoryResponds ==
    /\ historyReq
    /\ history' = NewestFirst(saved)
    /\ historyReq' = FALSE
    /\ UNCHANGED << page, projectId, terms, fitting, fitResult, fitError,
                    currentVersion, uiPc, reqTerms, fitClicks, restoring, restorePc,
                    restoreId, opens, engine, saved, fitReturn >>
    /\ UNCHANGED << backendVars, formVars >>

\* The mount effect resumes with the history: setHistory; with no version it
\* ends (finally setRestoring(false)), else it asks for the detail of hist[0].
MountHistoryResponds ==
    /\ restorePc = "await_history"
    /\ history' = NewestFirst(saved)
    /\ IF saved = << >>
       THEN restorePc' = "idle" /\ restoring' = FALSE /\ restoreId' = restoreId
       ELSE restorePc' = "await_detail" /\ restoring' = restoring
            /\ restoreId' = {NewestFirst(saved)[1]}
    /\ UNCHANGED << page, projectId, terms, fitting, fitResult, fitError,
                    currentVersion, uiPc, reqTerms, fitClicks, opens, historyReq,
                    engine, saved, fitReturn >>
    /\ UNCHANGED << backendVars, formVars >>

InHistory(v) == \E i \in 1..Len(history) : history[i] = v

\* handleRestoreVersion: the Restore button of a history entry that is not
\* the current version, disabled while restoring.
RestoreVersion(v) ==
    /\ page = "mounted"
    /\ InHistory(v)
    /\ currentVersion # Number(v)
    /\ ~restoring
    /\ restoring' = TRUE
    /\ restorePc' = "await_detail"
    /\ restoreId' = {v}
    /\ UNCHANGED << page, projectId, terms, fitting, fitResult, fitError,
                    currentVersion, history, uiPc, reqTerms, fitClicks, opens,
                    historyReq, engine, saved, fitReturn >>
    /\ UNCHANGED << backendVars, formVars >>

\* GET /models/detail/{id} answers: setTerms, setCurrentVersion, setFitResult
\* with what hydrateModel makes of the model, and finally setRestoring(false).
DetailResponds ==
    /\ restorePc = "await_detail"
    /\ \E v \in restoreId :
          /\ terms' = HydrateTerms(saved[v].terms)
          /\ currentVersion' = Number(saved[v].version)
          /\ fitResult' = HydrateFitResult(saved[v])
    /\ restoring' = FALSE
    /\ restorePc' = "idle"
    /\ restoreId' = {}
    /\ UNCHANGED << page, projectId, fitting, fitError, history, uiPc, reqTerms,
                    fitClicks, opens, historyReq, engine, saved, fitReturn >>
    /\ UNCHANGED << backendVars, formVars >>

\* A request of the mount effect or of handleRestoreVersion fails: the error
\* is logged, and finally setRestoring(false).
RestoreFails ==
    /\ restorePc \in {"await_history", "await_detail"}
    /\ restoring' = FALSE
    /\ restorePc' = "idle"
    /\ restoreId' = {}
    /\ UNCHANGED << page, projectId, terms, fitting, fitResult, fitError,
                    currentVersion, history, uiPc, reqTerms, fitClicks, opens,
                    historyReq, engine, saved, fitReturn >>
    /\ UNCHANGED << backendVars, formVars >>

PageNext ==
    \/ \E pid \in {{}, {"p1"}} : OpenPage(pid)
    \/ ClosePage
    \/ \E spec \in TermSpecs : AddTerm(spec)
    \/ \E spec \in TermSpecs : RemoveTerm(spec)
    \/ HandleFit
    \/ EngineFinishes
    \/ FitResponds
    \/ FitFails
    \/ SaveResponds
    \/ SaveFails
    \/ HistoryResponds
    \/ MountHistoryResponds
    \/ \E v \in 1..MaxFits : RestoreVersion(v)
    \/ DetailResponds
    \/ RestoreFails

PageSpec == Init /\ [][PageNext]_vars

\* Arguments addTerm and removeTerm are called with: TermSpecs, Region as
\* target encoding, the menu's quadratic expression over VehAge, and a
\* second expression over the same column.
MenuSpecs ==
    TermSpecs \cup
    { [column |-> "Region", type |-> "target_encoding", monotonicity |-> Undefined,
       expr |-> Undefined, label |-> "Region [TE]"],
      [column |-> "VehAge", type |-> "expression", monotonicity |-> Undefined,
       expr |-> "log(VehAge)", label |-> "log(VehAge)"],
      [column |-> "VehAge", type |-> "expression", monotonicity |-> Undefined,
       expr |-> "VehAge ** 2", label |-> "VehAge2 [Expr]"] }

\* The term list under addTerm and removeTerm alone.
TermsNext ==
    \/ \E pid \in {{}, {"p1"}} : OpenPage(pid)
    \/ \E spec \in MenuSpecs : AddTerm(spec)
    \/ \E spec \in MenuSpecs : RemoveTerm(spec)

TermsSpec == Init /\ [][TermsNext]_vars

\* ================================================= the model configuration form

NumericCols == {"ClaimNb", "Exposure"}
SplitCols == {"Group", "Year"}

\* The distinct values of a column (POST /api/datasets/column-values).
ColumnValues(c) == IF c = "Group" THEN {"A", "B"} ELSE {"2020"}

Groups == {"train", "holdout"}

NoMapping == [v \in {} |-> Null]

PendingTotal(p) == p["Group"] + p["Year"]

\* The effect on [splitColumn, datasetPath]: without a split column or a
\* dataset it empties splitValues and splitMapping, else it sets
\* loadingValues and sends a column-values request for the column.
SplitEffect(col, path) ==
    IF col = {} \/ path = {}
    THEN /\ splitValues' = {}
         /\ splitMapping' = NoMapping
         /\ UNCHANGED << loadingValues, pendingValues >>
    ELSE /\ loadingValues' = TRUE
         /\ \E c \in col : pendingValues' = [pendingValues EXCEPT ![c] = @ + 1]
         /\ UNCHANGED << splitValues, splitMapping >>

\* The form is opened without location.state: every field starts empty and
\* the effect runs once.
OpenForm ==
    /\ formPc = "closed"
    /\ formPc' = "open"
    /\ datasetPath' = {}
    /\ response' = {}
    /\ offset' = {}
    /\ weights' = {}
    /\ splitColumn' = {}
    /\ restoredSplitRef' = FALSE
    /\ loadingValues' = FALSE
    /\ pendingValues' = [c \in SplitCols |-> 0]
    /\ splitValues' = {}
    /\ splitMapping' = NoMapping
    /\ UNCHANGED handed
    /\ UNCHANGED << backendVars, pageVars >>

\* The builder's Setup button comes back with the config as location.state:
\* the fields start from it, splitValues starts empty, splitMapping is the
\* saved mapping, and the effect runs once.  The builder is left.
BackToForm ==
    /\ formPc = "builder"
    /\ formPc' = "open"
    /\ \E prev \in handed :
          /\ datasetPath' = prev.datasetPath
          /\ response' = prev.response
          /\ offset' = prev.offset
          /\ weights' = prev.weights
          /\ splitColumn' = IF prev.split = {} THEN {} ELSE {s.column : s \in prev.split}
          /\ restoredSplitRef' = (prev.split # {})
          /\ IF prev.split = {}
             THEN /\ splitValues' = {}
                  /\ splitMapping' = NoMapping
                  /\ loadingValues' = FALSE
                  /\ pendingValues' = [c \in SplitCols |-> 0]
             ELSE /\ splitValues' = {}
                  /\ \E s \in prev.split :
                        /\ splitMapping' = s.mapping
                        /\ pendingValues' = [c \in SplitCols |->
                                                IF c = s.column THEN 1 ELSE 0]
                  /\ loadingValues' = TRUE
    /\ handed' = {}
    /\ UNCHANGED << backendVars, pageVars >>

\* handleFile: the upload answers with the columns and the file path; the
\* effect runs for the new datasetPath.
Upload ==
    /\ formPc = "open"
    /\ datasetPath = {}
    /\ datasetPath' = {"d1"}
    /\ SplitEffect(splitColumn, {"d1"})
    /\ UNCHANGED << formPc, response, offset, weights, splitColumn, restoredSplitRef,
                    handed >>
    /\ UNCHANGED << backendVars, pageVars >>

\* The response dropdown: onChange={setResponse}, options are the numeric columns.
SetResponse(c) ==
    /\ formPc = "open"
    /\ datasetPath # {}
    /\ response' = {c}
    /\ UNCHANGED << formPc, datasetPath, offset, weights, splitColumn, splitValues,
                    splitMapping, loadingValues, restoredSplitRef, pendingValues,
                    handed >>
    /\ UNCHANGED << backendVars, pageVars >>

\* The options of the offset and of the weights dropdown: None, and the
\* numeric columns other than the response.
OffsetOptions == {{}} \cup {{c} : c \in {n \in NumericCols : {n} # response}}

\* The offset dropdown: onChange={setOffset}.
SetOffset(v) ==
    /\ formPc = "open"
    /\ datasetPath # {}
    /\ v \in OffsetOptions
    /\ offset' = v
    /\ UNCHANGED << formPc, datasetPath, response, weights, splitColumn, splitValues,
                    splitMapping, loadingValues, restoredSplitRef, pendingValues,
                    handed >>
    /\ UNCHANGED << backendVars, pageVars >>

\* The weights dropdown: onChange={setWeights}.
SetWeights(v) ==
    /\ formPc = "open"
    /\ datasetPath # {}
    /\ v \in OffsetOptions
    /\ weights' = v
    /\ UNCHANGED << formPc, datasetPath, response, offset, splitColumn, splitValues,
                    splitMapping, loadingValues, restoredSplitRef, pendingValues,
                    handed >>
    /\ UNCHANGED << backendVars, pageVars >>

\* The split column dropdown: setSplitColumn(v), and the effect runs when
\* the value changed.
SetSplitColumn(v) ==
    /\ formPc = "open"
    /\ datasetPath # {}
    /\ v # splitColumn
    /\ v # {} => PendingTotal(pendingValues) < MaxRequests
    /\ splitColumn' = v
    /\ SplitEffect(v, datasetPath)
    /\ UNCHANGED << formPc, datasetPath, response, offset, weights, restoredSplitRef,
                    handed >>
    /\ UNCHANGED << backendVars, pageVars >>

\* A column-values request answers with the values of the column it was
\* sent for: setSplitValues, then either the restored mapping is kept (first
\* load of a restored config) or every value is mapped to null; finally
\* setLoadingValues(false).
ValuesRespond(c) ==
    /\ formPc = "open"
    /\ pendingValues[c] > 0
    /\ pendingValues' = [pendingValues EXCEPT ![c] = @ - 1]
    /\ splitValues' = ColumnValues(c)
    /\ IF restoredSplitRef
       THEN restoredSplitRef' = FALSE /\ splitMapping' = splitMapping
       ELSE restoredSplitRef' = restoredSplitRef
            /\ splitMapping' = [v \in ColumnValues(c) |-> Null]
    /\ loadingValues' = FALSE
    /\ UNCHANGED << formPc, datasetPath, response, offset, weights, splitColumn,
                    handed >>
    /\ UNCHANGED << backendVars, pageVars >>

\* A column-values request answers with an error status or is rejected:
\* nothing is set but loadingValues.
ValuesFail(c) ==
    /\ formPc = "open"
    /\ pendingValues[c] > 0
    /\ pendingValues' = [pendingValues EXCEPT ![c] = @ - 1]
    /\ loadingValues' = FALSE
    /\ UNCHANGED << formPc, datasetPath, response, offset, weights, splitColumn,
                    splitValues, splitMapping, restoredSplitRef, handed >>
    /\ UNCHANGED << backendVars, pageVars >>

\* prev[val], undefined for a key that is not there.
MappingAt(mp, val) == IF val \in DOMAIN mp THEN mp[val] ELSE Undefined

\* A group button of a listed value: the value is mapped to the group, or to
\* null when it already was.
AssignGroup(val, group) ==
    /\ formPc = "open"
    /\ splitColumn # {}
    /\ val \in splitValues
    /\ splitMapping' = [k \in DOMAIN splitMapping \cup {val} |->
                           IF k = val
                           THEN (IF MappingAt(splitMapping, val) = group THEN Null ELSE group)
                           ELSE splitMapping[k]]
    /\ UNCHANGED << formPc, datasetPath, response, offset, weights, splitColumn,
                    splitValues, loadingValues, restoredSplitRef, pendingValues,
                    handed >>
    /\ UNCHANGED << backendVars, pageVars >>

\* splitColumn ? { column: splitColumn, mapping: splitMapping } : null
SplitConfig == {[column |-> c, mapping |-> splitMapping] : c \in splitColumn}

\* handleContinue, enabled when the form is valid (data, response, family
\* and project name): the config is sent to the project and handed to the
\* builder in navigate("/model", { state }).  The form is left, and answers
\* to its requests reach no state any more.
HandleContinue ==
    /\ formPc = "open"
    /\ datasetPath # {}
    /\ response # {}
    /\ handed' = {[response |-> response, offset |-> offset, weights |-> weights,
                   datasetPath |-> datasetPath, split |-> SplitConfig]}
    /\ formPc' = "builder"
    /\ pendingValues' = [c \in SplitCols |-> 0]
    /\ UNCHANGED << datasetPath, response, offset, weights, splitColumn, splitValues,
                    splitMapping, loadingValues, restoredSplitRef >>
    /\ UNCHANGED << backendVars, pageVars >>

ConfigNext ==
    \/ OpenForm
    \/ BackToForm
    \/ Upload
    \/ \E c \in NumericCols : SetResponse(c)
    \/ \E v \in OffsetOptions : SetOffset(v)
    \/ \E v \in OffsetOptions : SetWeights(v)
    \/ \E v \in {{}} \cup {{c} : c \in SplitCols} : SetSplitColumn(v)
    \/ \E c \in SplitCols : ValuesRespond(c)
    \/ \E c \in SplitCols : ValuesFail(c)
    \/ \E val \in ColumnValues("Group") \cup ColumnValues("Year"), group \in Groups :
          AssignGroup(val, group)
    \/ HandleContinue

ConfigSpec == Init /\ [][ConfigNext]_vars

\* =================================================================== claims

InFlight(m) == pc[m] \in {"scheduled", "broadcast_started", "to_thread", "in_thread",
                          "parse_progress", "store", "broadcast_terminal"}

\* C1: for every project, the versions of its Model rows are exactly
\* 1..N, N the number of fits submitted to it: no two rows share a version
\* and none is skipped, however the submissions and the running fits
\* interleave.
C1_VersionsGapless ==
    \A p \in Projects :
        LET ids == ProjectModels(models, p)
        IN  /\ {models[i].version : i \in ids} = 1..Cardinality(ids)
            /\ \A i, k \in ids : models[i].version = models[k].version => i = k

\* Two fits of one project submitted back to back, both still in flight.
C1_Witness ==
    \E i, k \in Created :
        /\ i # k
        /\ models[i].project_id = models[k].project_id
        /\ InFlight(i) /\ InFlight(k)
        /\ pc[i] # "scheduled"

\* C2: the call that submits a fit returns {jobId, version, status: pending}
\* to its caller while the fit has not finished: handleFit is handed the
\* answer of its POST before the computation ends.
C2_SubmitReturnsBeforeFitEnds ==
    \A r \in fitReturn : r.body = "pending" /\ r.fit = "running"

\* The step the task run_fit(m) takes next can be taken now.
NextStepEnabled(m) ==
    CASE pc[m] = "scheduled" -> ENABLED SetFitting(m)
      [] pc[m] = "broadcast_started" -> ENABLED BroadcastStarted(m)
      [] pc[m] = "to_thread" -> ENABLED ThreadStarts(m)
      [] pc[m] = "in_thread" -> ENABLED ThreadReturns(m)
      [] pc[m] = "parse_progress" -> ENABLED (BroadcastProgress(m) \/ ExtractResults(m))
      [] pc[m] = "store" -> ENABLED Store(m)
      [] pc[m] = "broadcast_terminal" -> ENABLED BroadcastTerminal(m)
      [] OTHER -> TRUE

SubmitEnabled == Len(responses) < MaxJobs => ENABLED (\E p \in Projects : Submit(p))

SameProject(i, k) ==
    /\ i \in Created /\ k \in Created
    /\ models[i].project_id = models[k].project_id

\* C12: the answers to the submissions of one project carry versions in
\* submission order: of two fits of a project the one submitted later has
\* the greater version, and N + 1 when the other one has N and no fit of the
\* project was submitted in between, whether or not the earlier fit has
\* finished.
C12_VersionOrderIsSubmissionOrder ==
    \A i, k \in 1..Len(responses) :
        (i < k /\ SameProject(i, k)) =>
            /\ responses[i].version < responses[k].version
            /\ (\A j \in (i + 1)..(k - 1) : ~SameProject(i, j))
                  => responses[k].version = responses[i].version + 1
            /\ models[i].version = responses[i].version
            /\ models[k].version = responses[k].version

\* Two fits of one project were submitted back to back: the task of the
\* first has not taken a step yet.
C12_Witness ==
    /\ Len(responses) = 2
    /\ SameProject(1, 2)
    /\ pc[1] = "scheduled" /\ pc[2] = "scheduled"
    /\ responses[1].version = 1 /\ responses[2].version = 2

TerminalPublished(m) ==
    \E i \in 1..Len(published[m]) : published[m][i].type \in TerminalTypes

\* C13: once fit_completed or fit_failed has been broadcast for a model,
\* _fit_channels holds no entry for it: the entries of finished fits do not
\* pile up.
C13_NoEntryAfterTerminal ==
    \A m \in ModelIds : TerminalPublished(m) => m \notin DOMAIN channels

Rank(type) ==
    CASE type = "fit_started" -> 0
      [] type = "fit_progress" -> 1
      [] OTHER -> 2

TypesInOrder(seq) ==
    \A i, k \in 1..Len(seq) :
        i < k => /\ Rank(seq[i].type) <= Rank(seq[k].type)
                 /\ seq[i].type \notin TerminalTypes
                 /\ seq[k].type # "fit_started"
                 /\ (seq[i].type = "fit_progress" /\ seq[k].type = "fit_progress"
                        => seq[i].iteration < seq[k].iteration)

\* seq occurs in pub in the same order (not necessarily contiguously).
IsSubsequence(seq, pub) ==
    \E f \in [1..Len(seq) -> 1..Len(pub)] :
        /\ \A i \in 1..Len(seq) : seq[i] = pub[f[i]]
        /\ \A i, k \in 1..Len(seq) : i < k => f[i] < f[k]

\* C3: what a connection has sent to its peer is in publication order:
\* fit_started before every fit_progress, every fit_progress before
\* fit_completed or fit_failed, and nothing after the terminal message.
C3_DeliveredInOrder ==
    \A o \in Observers :
        /\ TypesInOrder(delivered[o])
        /\ ws[o] # "unused" => IsSubsequence(delivered[o], published[wsModel[o]])

\* A connection that was sent fit_started, a fit_progress and the terminal
\* message.
C3_Witness ==
    \E o \in Observers :
        /\ Len(delivered[o]) = 3
        /\ delivered[o][1].type = "fit_started"
        /\ delivered[o][2].type = "fit_progress"
        /\ delivered[o][3].type \in TerminalTypes

StatusMoves ==
    { << "pending", "fitting" >>, << "fitting", "completed" >>, << "fitting", "failed" >> }

\* C4: the status of a Model row changes only pending -> fitting ->
\* completed or pending -> fitting -> failed; a completed or failed row
\* never changes status again.
C4_StatusTransitions ==
    [][ \A m \in DOMAIN models :
            models'[m].status # models[m].status
                => << models[m].status, models'[m].status >> \in StatusMoves ]_vars

\* One fit has completed, and another one is set to "fitting" after it.
C4_Witness ==
    \E m, k \in Created :
        /\ models[m].status = "completed"
        /\ models[k].status = "fitting"
        /\ pc[m] = "done"

ResultFieldsNull(row) == row.results = Null
FailureFieldsNull(row) == row.error_type = Null /\ row.error_message = Null

\* C5: a completed row has its result fields and no failure fields, a failed
\* row its failure fields and no result fields, a pending or fitting row
\* neither.
C5_FieldsMatchStatus ==
    \A m \in Created :
        LET row == models[m]
        IN  CASE row.status = "completed" ->
                    /\ row.results # Null
                    /\ FailureFieldsNull(row)
                    /\ row.fit_duration_ms # NoNumber
                    /\ \A d \in row.fit_duration_ms : d >= 0
              [] row.status = "failed" ->
                    /\ row.error_type # Null /\ row.error_message # Null
                    /\ ResultFieldsNull(row)
              [] OTHER ->
                    /\ ResultFieldsNull(row) /\ FailureFieldsNull(row)
                    /\ row.fit_duration_ms = NoNumber

\* A fit that succeeded but whose results could not be extracted is stored
\* as failed, next to a completed one.
C5_Witness ==
    \E m, k \in Created :
        /\ models[m].status = "failed"
        /\ models[m].error_type = ExtractionError
        /\ models[k].status = "completed"

\* C6: every submitted job ends completed or failed: a job whose task is
\* over (run_fit returned, or an exception ended it) has a terminal status.
C6_EndedTaskIsTerminal ==
    \A m \in Created :
        pc[m] \in {"done", "crashed"} => models[m].status \in Terminal

\* The kind of the failure taxonomy a row of the error mapping stands for;
\* the PredictionError row stands for none of them.
TaxonomyKind(row) ==
    CASE row = "ConvergenceError" -> "DidNotConverge"
      [] row = "DesignMatrixError" -> "InvalidDesign"
      [] row = "FittingError" -> "EstimationFailed"
      [] row = "EncodingError" -> "EncodingFailed"
      [] row = "ValidationError" -> "SpecInvalid"
      [] row = "SerializationError" -> "ArtifactFailed"
      [] row = OtherRow -> "Unclassified"
      [] OTHER -> row

SevenKinds ==
    {"DidNotConverge", "InvalidDesign", "EstimationFailed", "EncodingFailed",
     "SpecInvalid", "ArtifactFailed", "Unclassified"}

FailedMsgs(m) ==
    {published[m][i] : i \in {k \in 1..Len(published[m]) : published[m][k].type = "fit_failed"}}

NamedClasses == {ErrorTable[i] : i \in 1..Len(ErrorTable)}

PublishedSince(o) ==
    SubSeq(published[wsModel[o]], subAt[o] + 1, Len(published[wsModel[o]]))

\* C8: a connection registered after fit_started was broadcast has been
\* handed exactly the messages broadcast since it registered, none from
\* before: what it has sent plus what waits in its queue is the tail of the
\* publication sequence, so the terminal message is in it once broadcast.
C8_LateSubscriber ==
    \A o \in Observers :
        (ws[o] = "open" /\ subAt[o] >= 1)
            => delivered[o] \o queue[o] = PublishedSince(o)

\* A connection that registered after fit_started and a fit_progress and
\* was sent the terminal message only.
C8_Witness ==
    \E o \in Observers :
        /\ subAt[o] = 2
        /\ published[wsModel[o]][2].type = "fit_progress"
        /\ Len(delivered[o]) = 1
        /\ delivered[o][1].type \in TerminalTypes

\* Every broadcast the task run_fit(m) stands at can be made now.
PublishEnabled ==
    \A m \in ModelIds :
        /\ pc[m] = "broadcast_started" => ENABLED BroadcastStarted(m)
        /\ (pc[m] = "parse_progress" /\ progress[m] > 0) => ENABLED BroadcastProgress(m)
        /\ pc[m] = "broadcast_terminal" => ENABLED BroadcastTerminal(m)

\* Connection o forwards a message or closes in this step.
ObserverStep(o) == ws[o] = "open" /\ (delivered'[o] # delivered[o] \/ ws'[o] = "closed")

\* A step of one connection leaves every task where it stands and every
\* other connection's queue, sent messages and registration as they are.
OthersUntouched(o) ==
    /\ pc' = pc
    /\ \A k \in Observers \ {o} :
          /\ queue'[k] = queue[k]
          /\ delivered'[k] = delivered[k]
          /\ ws'[k] = ws[k]
          /\ k \in Listeners(channels, wsModel[k]) => k \in Listeners(channels', wsModel[k])

\* A broadcast for model m puts the message at the end of the queue of every
\* connection registered for m, however long that queue or any other is.
PublishAppends(m) ==
    Len(published'[m]) = Len(published[m]) + 1 =>
        \A k \in Listeners(channels, m) :
            queue'[k] = Append(queue[k], published'[m][Len(published'[m])])

\* C14: a broadcast never waits for a connection: the task can make it
\* whatever the queues hold and whether or not the connections are drained
\* or closed, it appends to every registered queue, and a connection that
\* forwards or closes changes nothing for the tasks and the other connections.
C14_PublishNeverWaits ==
    /\ []PublishEnabled
    /\ [][ /\ \A m \in ModelIds : PublishAppends(m)
           /\ \A o \in Observers : ObserverStep(o) => OthersUntouched(o) ]_vars

\* One connection was never drained and holds fit_started, a fit_progress
\* and the terminal message in its queue, while another connection on the
\* same fit was sent all three and closed.
C14_Witness ==
    \E o, k \in Observers :
        /\ o # k /\ wsModel[o] = wsModel[k]
        /\ ws[o] = "open" /\ delivered[o] = << >> /\ Len(queue[o]) = 3
        /\ ws[k] = "closed" /\ Len(delivered[k]) = 3
        /\ delivered[k][3].type \in TerminalTypes

\* C15: no message is lost on the way to a connection: for a connection
\* that is open, the messages sent to its peer followed by those waiting in
\* its queue are exactly the messages broadcast for its model since it
\* registered; a connection closed by the terminal message was sent all of them.
C15_NoEventMissed ==
    \A o \in Observers :
        /\ ws[o] = "open" => delivered[o] \o queue[o] = PublishedSince(o)
        /\ (ws[o] = "closed" /\ delivered[o] # << >>
               /\ delivered[o][Len(delivered[o])].type \in TerminalTypes)
              => delivered[o] = PublishedSince(o)

\* Two connections registered for one fit before fit_started were both sent
\* fit_started, a fit_progress and the terminal message.
C15_Witness ==
    \E o, k \in Observers :
        /\ o # k /\ wsModel[o] = wsModel[k]
        /\ subAt[o] = 0 /\ subAt[k] = 0
        /\ Len(delivered[o]) = 3 /\ Len(delivered[k]) = 3
        /\ delivered[o] = published[wsModel[o]]
        /\ delivered[k] = published[wsModel[k]]

\* Connection o is opened, forwards a message or closes in this step.
ObserverActs(o) == ws'[o] # ws[o] \/ delivered'[o] # delivered[o]

AllObserversGone(m) ==
    /\ \E o \in Observers : wsModel[o] = m /\ ws[o] = "closed"
    /\ \A o \in Observers : wsModel[o] = m => ws[o] = "closed"

\* The row of a finished fit is what its outcome alone makes it.
RecordFromOutcome(m) ==
    /\ models[m].status = IF outcome[m] = "ok" THEN "completed" ELSE "failed"
    /\ models[m].error_type = IF outcome[m] = "ok" THEN Null ELSE outcome[m]
    /\ models[m].results = IF outcome[m] = "ok" THEN "populated" ELSE Null
    /\ models[m].fit_duration_ms = Number(Len(published[m]) - 1)

\* C16: what the connections do never changes a fit: a step in which a
\* connection opens, forwards or closes leaves the Model rows and every task
\* untouched, a fit all of whose connections are gone still takes its next
\* step (or waits for the thread as any fit does), and the row of a finished
\* fit is what its outcome alone makes it, with or without connections.
C16_ObserversNeverChangeJob ==
    /\ [][ \A o \in Observers : ObserverActs(o) => UNCHANGED taskVars ]_vars
    /\ [](\A m \in Created :
            /\ AllObserversGone(m) =>
                  (NextStepEnabled(m) \/ (pc[m] = "to_thread" /\ ~GilFree(pc)))
            /\ pc[m] = "done" => RecordFromOutcome(m))

\* The only connection of a fit left after fit_started, before the terminal
\* message; the fit went on and is stored as completed.
C16_Witness ==
    \E m \in Created, o \in Observers :
        /\ AllObserversGone(m)
        /\ wsModel[o] = m
        /\ Len(delivered[o]) = 1 /\ delivered[o][1].type = "fit_started"
        /\ pc[m] = "done"
        /\ models[m].status = "completed"

\* C17: a failed row is never written again: it keeps its status, version
\* and failure fields for as long as it exists, its task takes no step but
\* the terminal broadcast, and a fit submitted later gets a model_id and a
\* version that no row of its project has.
C17_FailedNeverRewritten ==
    [][ /\ \A m \in DOMAIN models :
              models[m].status = "failed" =>
                  /\ m \in DOMAIN models' => models'[m] = models[m]
                  /\ pc'[m] \in {pc[m], "done"}
        /\ \A m \in DOMAIN models' \ DOMAIN models :
              /\ m > Len(responses)
              /\ \A k \in DOMAIN models :
                    models[k].project_id = models'[m].project_id
                        => models[k].version # models'[m].version ]_vars

\* The first fit of a project is stored as failed with version 1 and its
\* task is over; a second fit of the project exists with version 2.
C17_Witness ==
    /\ DOMAIN models = {1, 2}
    /\ models[1].status = "failed" /\ models[1].version = 1 /\ pc[1] = "done"
    /\ models[2].project_id = models[1].project_id
    /\ models[2].version = 2
    /\ models[2].status \in {"pending", "fitting", "completed"}

Identity(row) == << row.project_id, row.version >>

\* C18: the Model rows of a project only grow: in every step each row of the
\* project stays, with its project and version, or the project is deleted
\* and all its rows go together; nothing else removes a row.
C18_AttemptsOnlyGrow ==
    [][ \A p \in Projects :
            \/ /\ ProjectModels(models, p) \subseteq ProjectModels(models', p)
               /\ \A m \in ProjectModels(models, p) :
                     Identity(models'[m]) = Identity(models[m])
               /\ (p \in deleted <=> p \in deleted')
            \/ /\ p \notin deleted /\ p \in deleted'
               /\ ProjectModels(models', p) = {}
               /\ \A m \in DOMAIN models \ ProjectModels(models, p) : m \in DOMAIN models' ]_vars

\* A project with two fits was deleted and both rows are gone.
C18_Witness ==
    /\ Len(responses) = 2
    /\ deleted = {"p1"}
    /\ DOMAIN models = {}

\* C19: the row reads "fitting" before rustystats is called for it: no task
\* is at or past the thread that loads, builds and fits while its row still
\* reads "pending".
C19_FittingBeforeThread ==
    \A m \in Created :
        pc[m] \in {"broadcast_started", "to_thread", "in_thread", "parse_progress",
                   "store", "broadcast_terminal", "done"}
            => models[m].status # "pending"

\* A fit is in its thread, its row reads "fitting".
C19_Witness ==
    \E m \in Created : pc[m] = "in_thread" /\ models[m].status = "fitting"

\* C20: the terminal write comes before the terminal message: whenever
\* fit_completed or fit_failed has been broadcast for a model, its row
\* already has the matching status with the result or the failure fields
\* written, so a connection that was sent the message finds the row terminal.
C20_WriteBeforeEvent ==
    \A m \in Created :
        \A i \in 1..Len(published[m]) :
            /\ published[m][i].type = "fit_completed" =>
                  /\ models[m].status = "completed"
                  /\ models[m].results # Null
            /\ published[m][i].type = "fit_failed" =>
                  /\ models[m].status = "failed"
                  /\ models[m].error_type = published[m][i].error_type
                  /\ models[m].error_message # Null

\* A connection was sent fit_failed and another one fit_completed.
C20_Witness ==
    \E o, k \in Observers :
        /\ delivered[o] # << >> /\ delivered[k] # << >>
        /\ delivered[o][Len(delivered[o])].type = "fit_failed"
        /\ delivered[k][Len(delivered[k])].type = "fit_completed"

TerminalCount(m) ==
    Cardinality({i \in 1..Len(published[m]) : published[m][i].type \in TerminalTypes})

StatusOfType(type) == IF type = "fit_completed" THEN "completed" ELSE "failed"

StartedCount(m) ==
    Cardinality({i \in 1..Len(published[m]) : published[m][i].type = "fit_started"})

C24_OpenChannelHasTerminalAhead ==
    \A o \in Observers :
        ws[o] = "open" =>
            \/ queue[o] # << >>
            \/ InFlight(wsModel[o])

\* C9: unregistering never raises, and a call for a connection that is
\* already closed, or for a model whose entry is gone, changes nothing in
\* _fit_channels.
C9_UnregisterIsSafe ==
    /\ ~hubRaised
    /\ \A o \in Observers :
          (ws[o] = "closed" \/ (ws[o] = "open" /\ wsModel[o] \notin DOMAIN channels))
              => LET r == Unregister(channels, wsModel[o], o)
                 IN  /\ ~r.raised
                     /\ ws[o] = "closed" => r.channels = channels

\* A connection closed after the entry of its model was dropped, while
\* another connection is still registered for another model.
C9_Witness ==
    \E o, k \in Observers :
        /\ ws[o] = "closed"
        /\ pc[wsModel[o]] = "done"
        /\ wsModel[o] \notin DOMAIN channels
        /\ ws[k] = "open"
        /\ k \in Listeners(channels, wsModel[k])

\* C10: a connection is only ever handed messages of the model_id it
\* registered for.
C10_OnlyOwnModel ==
    \A o \in Observers :
        /\ \A i \in 1..Len(delivered[o]) : delivered[o][i].model_id = wsModel[o]
        /\ \A i \in 1..Len(queue[o]) : queue[o][i].model_id = wsModel[o]

\* Two connections on two different fits, each sent messages while both
\* fits were broadcasting.
C10_Witness ==
    \E o, k \in Observers :
        /\ wsModel[o] # wsModel[k]
        /\ delivered[o] # << >> /\ delivered[k] # << >>
        /\ Len(published[wsModel[o]]) >= 2 /\ Len(published[wsModel[k]]) >= 2

\* C22: the specification stored with an attempt is the one given at
\* submission and never changes.  The terms sent to /fit are the working
\* terms serialized when Fit was clicked; while the fit is in flight they stay
\* as they are whatever is edited; the fit answers over them; the row
\* /models/save appends carries exactly them; and no stored row is ever
\* changed or removed.
C22_SpecFrozenAtSubmission ==
    [][ /\ fitClicks' # fitClicks => reqTerms' = SerializeTerms(terms)
        /\ uiPc # "idle" => reqTerms' = reqTerms
        /\ Len(saved') >= Len(saved)
        /\ \A v \in 1..Len(saved) : saved'[v] = saved[v]
        /\ Len(saved') > Len(saved) =>
              /\ Len(saved') = Len(saved) + 1
              /\ saved'[Len(saved')].terms = reqTerms
              /\ saved'[Len(saved')].fit = fitClicks
        /\ uiPc = "await_fit" /\ uiPc' # uiPc /\ engine = "ok" =>
              fitResult' = {FitResultOf(fitClicks, reqTerms)} ]_vars

\* The working terms were edited while the fit was in flight, and the fit
\* has answered over the terms it was given.
C22_Witness ==
    /\ uiPc = "await_save"
    /\ SerializeTerms(terms) # reqTerms
    /\ fitResult = {FitResultOf(fitClicks, reqTerms)}

Descending(h) == \A i \in 1..(Len(h) - 1) : h[i] > h[i + 1]

\* C23: the history listing is in strictly descending version order, its
\* first element is the project's highest version, and that is the version
\* the mount effect asks for and restores (terms, version number, fit
\* result) when the project is opened.
C23_HistoryNewestFirst ==
    /\ [](/\ Descending(history)
          /\ Descending(NewestFirst(saved))
          /\ saved # << >> =>
                \A v \in 1..Len(saved) : saved[v].version <= NewestFirst(saved)[1])
    /\ [][ /\ restorePc = "await_history" /\ restorePc' = "await_detail" =>
                /\ history' = NewestFirst(saved)
                /\ restoreId' = {history'[1]}
                /\ \A v \in 1..Len(saved) : saved[v].version <= history'[1]
           /\ restorePc = "await_detail" /\ restorePc' = "idle" /\ currentVersion' # currentVersion =>
                \E v \in restoreId :
                    /\ currentVersion' = Number(saved[v].version)
                    /\ terms' = HydrateTerms(saved[v].terms)
                    /\ fitResult' = {FitResultOf(saved[v].fit, saved[v].terms)} ]_vars

\* The project has two versions and the page, opened again, asks for the
\* detail of version 2.
C23_Witness ==
    /\ opens = 2
    /\ Len(saved) = 2
    /\ restorePc = "await_detail"
    /\ history = << 2, 1 >>
    /\ restoreId = {2}
    /\ currentVersion = NoNumber

\* C25: on a project-backed page with no fit and no restore outstanding,
\* the fit result on show is the one stored under the version number on show.
C25_ResultBelongsToVersion ==
    (page = "mounted" /\ projectId # {} /\ uiPc = "idle" /\ restorePc = "idle") =>
        \A v \in currentVersion : \A r \in fitResult :
            r = FitResultOf(saved[v].fit, saved[v].terms)

\* C26: fitResult and fitError are never both set.
C26_ResultOrErrorNotBoth == ~(fitResult # {} /\ fitError # {})

\* Every request of handleFit settles: the fit ends, the answer to /fit
\* arrives or is rejected, and so does the answer to /models/save.
FairPageSpec ==
    /\ PageSpec
    /\ WF_vars(EngineFinishes)
    /\ WF_vars(FitResponds)
    /\ WF_vars(FitFails)
    /\ WF_vars(SaveResponds \/ SaveFails)

\* C27: every handleFit that sets fitting sets it back to false (after fit
\* and save, after a failed fit, after a failed auto-save); fitting is true
\* exactly while a request of handleFit is outstanding, and while it is true
\* the Fit button cannot start another fit.
C27_FittingEndsAndExcludes ==
    /\ [](fitting => ~ENABLED HandleFit)
    /\ [](fitting <=> uiPc # "idle")
    /\ (fitting ~> ~fitting)

\* The second fit succeeded, its auto-save failed, and fitting is false again.
C27_Witness ==
    /\ ~fitting
    /\ uiPc = "idle"
    /\ projectId # {}
    /\ fitClicks = 2
    /\ Len(saved) = 1
    /\ saved[1].fit = 1
    /\ fitResult = {FitResultOf(2, reqTerms)}

Triple(t) == << t.column, t.type, t.expr >>

Holds(ts, spec) == \E i \in 1..Len(ts) : Triple(ts[i]) = Triple(spec)

C29_ResponseNotOffsetNorWeights ==
    /\ response # {} => (offset # response /\ weights # response)
    /\ \A c \in handed : c.offset # c.response /\ c.weights # c.response

SelectedValues == IF splitColumn = {} THEN {} ELSE ColumnValues(CHOOSE c \in splitColumn : TRUE)

\* C30: once no column-values request is outstanding, splitValues and the
\* keys of splitMapping are the values of the selected split column
\* whenever any values are listed.
C30_SplitStateOfCurrentColumn ==
    (formPc = "open" /\ PendingTotal(pendingValues) = 0 /\ splitValues # {}) =>
        /\ splitValues = SelectedValues
        /\ DOMAIN splitMapping = SelectedValues

====
